---- MODULE Spec2Model ----
(***************************************************************************)
(* Model of the MindSensor connection core: the frame decoder              *)
(* (utils/sensorParser), the reassembler and connection manager            *)
(* (bluetooth/mindsensor.ts) and the telemetry store (store/monitorStore). *)
(***************************************************************************)
EXTENDS Integers, Sequences, FiniteSets, TLC

(***************************************************************************)
(* Bounds of the model.                                                    *)
(***************************************************************************)
\* Date.now() at start-up (any positive instant).
StartTime == 1000
\* The clock stops advancing once this much time has elapsed.
MaxElapsed == 3001
\* Full samples recorded per run (caps the recording buffers).
MaxSamples == 2
\* Longest buffer handed to the decoder in SpecDecode.
MaxLen == 20

(***************************************************************************)
(* JavaScript values.                                                      *)
(***************************************************************************)
\* `undefined` where a number is expected (lastDataTs?, recordStartTime?, d[i] out of range).
UndefinedNum == 0 - 1
\* NaN, the result of arithmetic on undefined.
NaNNum == 0 - 2
\* `undefined` where a device or a device id is expected.
NoDevice == "none"
\* null / undefined where an object is expected.
Null == [null |-> TRUE]
\* An exception escaping a function (TypeError on undefined.toString).
Throw == [throw |-> TRUE]

Truthy(n) == n # UndefinedNum /\ n # NaNNum /\ n # 0

(***************************************************************************)
(* Frame decoder: utils/sensorParser (src/unnamed/part_002).               *)
(***************************************************************************)
\* d[i] of a Uint8Array, 0-based; undefined past the end.
At(d, i) == IF i >= 0 /\ i < Len(d) THEN d[i + 1] ELSE UndefinedNum

\* x << k on an array element: undefined converts to 0.  A byte shifted by
\* at most 16 stays below 2^24, so the 32-bit wrap of << never applies.
Shl(x, k) == IF x = UndefinedNum THEN 0 ELSE x * (2 ^ k)

\* Mutant of get3: the high byte shifted by 8 instead of 16.
get3_hi8(arr, idx) ==
  IF At(arr, idx + 2) = UndefinedNum THEN NaNNum
  ELSE Shl(At(arr, idx), 8) + Shl(At(arr, idx + 1), 8) + At(arr, idx + 2)

get3(arr, idx) ==
  IF At(arr, idx + 2) = UndefinedNum THEN NaNNum
  ELSE Shl(At(arr, idx), 16) + Shl(At(arr, idx + 1), 8) + At(arr, idx + 2)

HexDigits == <<"0","1","2","3","4","5","6","7","8","9","a","b","c","d","e","f">>

\* Number.prototype.toString(16) of a byte: one or two digits.
toString16(b) ==
  IF b < 16 THEN <<HexDigits[b + 1]>>
  ELSE <<HexDigits[(b \div 16) + 1], HexDigits[(b % 16) + 1]>>

\* ('00' + s).slice(-2)
Pad2(s) == LET t == <<"0", "0">> \o s IN SubSeq(t, Len(t) - 1, Len(t))

\* The prefix loop of getSensorData: 8 hex characters, or Throw when a byte is undefined.
RECURSIVE PrefixFrom(_, _)
PrefixFrom(d, i) ==
  IF i >= 4 THEN <<>>
  ELSE IF At(d, i) = UndefinedNum THEN Throw
  ELSE LET rest == PrefixFrom(d, i + 1)
       IN IF rest = Throw THEN Throw ELSE Pad2(toString16(At(d, i))) \o rest

\* Math.round(num / den) for num >= 0, den > 0: halves round up.
MathRound(num, den) ==
  IF num = NaNNum THEN NaNNum ELSE (2 * num + den) \div (2 * den)

Times(x, k) == IF x = NaNNum THEN NaNNum ELSE x * k

Prefix1 == <<"a","a","0","1","0","1","0","f">>
Prefix2 == <<"a","a","0","1","0","2","0","c">>

\* Minimum lengths of the two segments.
MinLen1 == 19
MinLen2 == 16

Segment1(d) ==
  [sq |-> At(d, 4), focus |-> At(d, 5), relax |-> At(d, 6),
   delta |-> MathRound(Times(get3(d, 7), 3), 50),
   theta |-> MathRound(get3(d, 10), 3),
   lowAlpha |-> get3(d, 13),
   highAlpha |-> get3(d, 16)]

\* Mutant of Segment2: highBeta and lowGamma read each other's bytes.
Segment2_swapped(d) ==
  [lowBeta |-> get3(d, 4), highBeta |-> get3(d, 10),
   lowGamma |-> get3(d, 7), highGamma |-> get3(d, 13)]

Segment2(d) ==
  [lowBeta |-> get3(d, 4), highBeta |-> get3(d, 7),
   lowGamma |-> get3(d, 10), highGamma |-> get3(d, 13)]

\* What getSensorData writes with console.log for a buffer: one message on
\* the three length checks, nothing anywhere else ("" is no output).
consoleLog(d) ==
  IF Len(d) < 4 THEN "Insufficient data length"
  ELSE LET prefix == PrefixFrom(d, 0)
       IN IF prefix = Prefix1 /\ Len(d) < MinLen1 THEN "Segment 1 insufficient data length"
          ELSE IF prefix = Prefix2 /\ Len(d) < MinLen2 THEN "Segment 2 insufficient data length"
          ELSE ""

\* Mutant of getSensorData: the first-segment length check is off by one.
getSensorData_short1(d) ==
  IF Len(d) < 4 THEN Null
  ELSE LET prefix == PrefixFrom(d, 0)
       IN IF prefix = Throw THEN Throw
          ELSE IF prefix = Prefix1
            THEN IF Len(d) < MinLen1 - 1 THEN Null ELSE Segment1(d)
          ELSE IF prefix = Prefix2
            THEN IF Len(d) < MinLen2 THEN Null ELSE Segment2(d)
          ELSE Null

getSensorData(d) ==
  IF Len(d) < 4 THEN Null
  ELSE LET prefix == PrefixFrom(d, 0)
       IN IF prefix = Throw THEN Throw
          ELSE IF prefix = Prefix1
            THEN IF Len(d) < MinLen1 THEN Null ELSE Segment1(d)
          ELSE IF prefix = Prefix2
            THEN IF Len(d) < MinLen2 THEN Null ELSE Segment2(d)
          ELSE Null

(***************************************************************************)
(* Frames on the wire.                                                     *)
(***************************************************************************)
\* Big-endian 3-byte encoding, as the device sends it.
U24(x) == <<(x \div 65536) % 256, (x \div 256) % 256, x % 256>>

Frame1(sq, focus, relax, d, t, la, ha) ==
  <<170, 1, 1, 15, sq, focus, relax>> \o U24(d) \o U24(t) \o U24(la) \o U24(ha)

Frame2(lb, hb, lg, hg) ==
  <<170, 1, 2, 12>> \o U24(lb) \o U24(hb) \o U24(lg) \o U24(hg)

(***************************************************************************)
(* Telemetry store: store/monitorStore.ts.  The zustand state object is    *)
(* one record; every action is a function from the state (and Date.now()) *)
(* to the next state.                                                      *)
(***************************************************************************)
SeriesKeys == {"focus", "relax", "delta", "theta", "lowAlpha", "highAlpha",
               "lowBeta", "highBeta", "lowGamma", "highGamma"}

initialSeriesData == [k \in SeriesKeys |-> <<>>]

InitialState ==
  [connectionState |-> "idle", scanning |-> FALSE, devices |-> <<>>,
   connectingId |-> NoDevice, connected |-> NoDevice,
   lastDataTs |-> UndefinedNum, possibleDrop |-> FALSE, wearOk |-> FALSE,
   focus |-> 0, relax |-> 0, currentSensor |-> Null,
   isRecording |-> FALSE, recordStartTime |-> UndefinedNum,
   samples |-> <<>>, series |-> initialSeriesData]

\* Mutant of setScanning: the end of a scan always gives Idle.
setScanning_idle(s, scanning) ==
  [s EXCEPT !.scanning = scanning,
            !.connectionState = IF scanning THEN "scanning" ELSE "idle"]

setScanning(s, scanning) ==
  [s EXCEPT !.scanning = scanning,
            !.connectionState = IF scanning THEN "scanning"
                                ELSE IF s.connected # NoDevice THEN "connected"
                                ELSE "idle"]

\* devices are identified by id; a device record is [id, name].
\* Mutant of addDevice: a device already listed is listed again.
addDevice_noDedup(s, device) ==
  [s EXCEPT !.devices = Append(s.devices, device)]

addDevice(s, device) ==
  IF \E i \in 1..Len(s.devices) : s.devices[i].id = device.id
  THEN s
  ELSE [s EXCEPT !.devices = Append(s.devices, device)]

clearDevices(s) == [s EXCEPT !.devices = <<>>]

setConnecting(s, deviceId) ==
  [s EXCEPT !.connectingId = deviceId,
            !.connectionState = IF deviceId # NoDevice THEN "connecting"
                                ELSE s.connectionState]

\* Mutant of setConnected: connectingId is not cleared.
setConnected_keepsConnecting(s, device) ==
  [s EXCEPT !.connected = device,
            !.connectionState = IF device # NoDevice THEN "connected" ELSE "idle",
            !.possibleDrop = FALSE]

setConnected(s, device) ==
  [s EXCEPT !.connected = device,
            !.connectingId = NoDevice,
            !.connectionState = IF device # NoDevice THEN "connected" ELSE "idle",
            !.possibleDrop = FALSE]

\* Mutant of onSensorData1: possibleDrop is not cleared.
onSensorData1_keepsDrop(s, sq, focus, relax, t) ==
  [s EXCEPT !.wearOk = (sq = 0),
            !.focus = focus,
            !.relax = relax,
            !.lastDataTs = t]

\* Mutant of onSensorData1: the headset counts as worn whatever sq says.
onSensorData1_alwaysWorn(s, sq, focus, relax, t) ==
  [s EXCEPT !.wearOk = TRUE,
            !.focus = focus,
            !.relax = relax,
            !.lastDataTs = t,
            !.possibleDrop = FALSE]

onSensorData1(s, sq, focus, relax, t) ==
  [s EXCEPT !.wearOk = (sq = 0),
            !.focus = focus,
            !.relax = relax,
            !.lastDataTs = t,
            !.possibleDrop = FALSE]

\* Mutant of AppendAll: one series is not appended to.
AppendAll_skipsOne(series, data) ==
  [k \in SeriesKeys |-> IF k = "highGamma" THEN series[k] ELSE Append(series[k], data[k])]

AppendAll(series, data) == [k \in SeriesKeys |-> Append(series[k], data[k])]

\* Mutant of onFullSensorData: the sample is appended whether or not a
\* recording is active.
onFullSensorData_always(s, data, t) ==
  [s EXCEPT !.currentSensor = data,
            !.lastDataTs = t,
            !.possibleDrop = FALSE,
            !.focus = data.focus,
            !.relax = data.relax,
            !.samples = Append(s.samples,
                          [t |-> t, focus |-> data.focus, relax |-> data.relax]),
            !.series = AppendAll(s.series, data)]

onFullSensorData(s, data, t) ==
  LET s1 == [s EXCEPT !.currentSensor = data,
                      !.lastDataTs = t,
                      !.possibleDrop = FALSE,
                      !.focus = data.focus,
                      !.relax = data.relax]
  IN IF s.isRecording
     THEN [s1 EXCEPT !.samples = Append(s.samples,
                                   [t |-> t, focus |-> data.focus, relax |-> data.relax]),
                     !.series = AppendAll(s.series, data)]
     ELSE s1

\* The watchdog threshold, in ms.
DropThreshold == 3000

\* Mutant of checkDropConnection: a suspected drop also ends the connection.
checkDropConnection_disconnects(s, t) ==
  IF s.connected # NoDevice /\ Truthy(s.lastDataTs) /\ t - s.lastDataTs > DropThreshold
  THEN [s EXCEPT !.possibleDrop = TRUE, !.connected = NoDevice, !.connectionState = "idle"]
  ELSE s

\* Mutant of checkDropConnection: the flag follows the condition both ways.
checkDropConnection_resets(s, t) ==
  IF s.connected # NoDevice /\ Truthy(s.lastDataTs) /\ t - s.lastDataTs > DropThreshold
  THEN [s EXCEPT !.possibleDrop = TRUE]
  ELSE [s EXCEPT !.possibleDrop = FALSE]

\* Mutant of checkDropConnection: the connected device is not looked at.
checkDropConnection_unconnected(s, t) ==
  IF Truthy(s.lastDataTs) /\ t - s.lastDataTs > DropThreshold
  THEN [s EXCEPT !.possibleDrop = TRUE]
  ELSE s

checkDropConnection(s, t) ==
  IF s.connected # NoDevice /\ Truthy(s.lastDataTs) /\ t - s.lastDataTs > DropThreshold
  THEN [s EXCEPT !.possibleDrop = TRUE]
  ELSE s

startRecord(s, t) == [s EXCEPT !.isRecording = TRUE, !.recordStartTime = t]

\* Mutant of stopRecord: the buffers are dropped with the session.
stopRecord_clears(s) ==
  [s EXCEPT !.isRecording = FALSE, !.samples = <<>>, !.series = initialSeriesData]

stopRecord(s) == [s EXCEPT !.isRecording = FALSE]

\* Mutant of clearData: the session start time survives.
clearData_keepsStart(s) ==
  [s EXCEPT !.samples = <<>>,
            !.series = initialSeriesData,
            !.currentSensor = Null]

clearData(s) ==
  [s EXCEPT !.samples = <<>>,
            !.series = initialSeriesData,
            !.recordStartTime = UndefinedNum,
            !.currentSensor = Null]

\* Mutant of disconnect: possibleDrop is not cleared.
disconnect_keepsDrop(s) ==
  [s EXCEPT !.connected = NoDevice,
            !.connectionState = "idle",
            !.isRecording = FALSE]

\* Mutant of disconnect: an active recording goes on.
disconnect_keepsRecording(s) ==
  [s EXCEPT !.connected = NoDevice,
            !.connectionState = "idle",
            !.possibleDrop = FALSE]

disconnect(s) ==
  [s EXCEPT !.connected = NoDevice,
            !.connectionState = "idle",
            !.possibleDrop = FALSE,
            !.isRecording = FALSE]

reset(s) == InitialState

(***************************************************************************)
(* The environment: devices, frames the peripheral may send, the clock.    *)
(***************************************************************************)
Devices == {"d1", "d2"}

\* The example frame of the protocol description: 100, 30, 500, 700.
FrameA == Frame1(0, 69, 60, 100, 30, 500, 700)
\* Another first segment: signal quality bad, delta on a rounding half.
FrameB == Frame1(1, 50, 40, 25, 4, 70000, 3)
FrameS == Frame2(1000, 2000, 300000, 4)
\* Fewer than 4 bytes.
FrameShort == <<170, 1, 1>>
\* Unknown prefix, otherwise a full first segment.
FrameUnknown == <<170, 1, 3, 15>> \o SubSeq(FrameA, 5, 19)
\* Known prefixes, one byte short of the minimum length.
FrameTrunc1 == SubSeq(FrameA, 1, 18)
FrameTrunc2 == SubSeq(FrameS, 1, 15)

Frames == <<FrameA, FrameB, FrameS, FrameShort, FrameUnknown, FrameTrunc1, FrameTrunc2>>

\* What the device sent, read off the bytes: a first segment, a second
\* segment, or neither (too short, unknown prefix, truncated).
HasPrefix(b, p) == Len(b) >= 4 /\ SubSeq(b, 1, 4) = p
IsFirstSegment(b) == HasPrefix(b, <<170, 1, 1, 15>>) /\ Len(b) >= 19
IsSecondSegment(b) == HasPrefix(b, <<170, 1, 2, 12>>) /\ Len(b) >= 16
Malformed(b) == ~IsFirstSegment(b) /\ ~IsSecondSegment(b)

AllFrames == 1..Len(Frames)
ValidFrames == {f \in AllFrames : ~Malformed(Frames[f])}

\* Clock advances between events, in ms: up to and just past the watchdog threshold.
TimeSteps == {3000, 3001}

VARIABLES
  store,              \* the zustand state object
  part1, isHalf,      \* module state of mindsensor.ts: the PartialSample
  pc,                 \* per device: await point of the connectDevice call in flight
  gattConnected,      \* per device: device.gatt.connected
  subscribed,         \* devices whose notify characteristic delivers to handleCharacteristicValueChanged
  disconnectListener, \* devices with handleDisconnect registered for gattserverdisconnected
  valueListener,      \* devices whose notify characteristic has handleCharacteristicValueChanged
                      \* registered for characteristicvaluechanged
  written,            \* per device: the values written to its write characteristic by the
                      \* latest connectDevice call
  lastConnectedDevice,\* localStorage entry written by connectDevice
  now,                \* Date.now()
  scanPc,             \* "requesting" while a startScan call awaits requestLEScan
  scanAbortController,\* module variable: TRUE when it references a controller
  advListener,        \* an advertisement listener is bound to that controller's signal
  strayListeners,     \* an advertisement listener is bound to a controller nothing references
  scanTimeout,        \* module variable: TRUE when it references an armed timer
  strayTimers,        \* armed scan timers that nothing references
  leScan,             \* whether this browser offers bluetooth.requestLEScan
  buf, decoded,       \* SpecDecode: a buffer and what getSensorData returned for it
  counts,             \* history: first segments, second segments and full samples so far
  firsts,             \* history: the (at most two) latest first segments delivered since the
                      \* last second segment, connect or disconnect
  last                \* history: the last operation, its outcome and what it started from

vars == <<store, part1, isHalf, pc, gattConnected, subscribed, disconnectListener,
          valueListener, written, lastConnectedDevice, now, scanPc, scanAbortController, advListener,
          strayListeners, scanTimeout, strayTimers, leScan, buf, decoded, counts, firsts, last>>

Held == isHalf /\ part1 # Null

\* The record of an operation: its name, its argument (a device or a frame),
\* how it ended, the FullSample it handed to onFullSensorData (Null if none),
\* and the PartialSample / possibleDrop / scanning flag / buffer length /
\* isRecording it started from.
Op(op, arg, result, full) ==
  [op |-> op, arg |-> arg, result |-> result, full |-> full,
   firsts |-> firsts, held |-> Held, drop |-> store.possibleDrop,
   scanning |-> store.scanning, samples |-> Len(store.samples), log |-> "",
   recording |-> store.isRecording]

Init ==
  /\ store = InitialState
  /\ part1 = Null
  /\ isHalf = FALSE
  /\ pc = [d \in Devices |-> "idle"]
  /\ gattConnected = [d \in Devices |-> FALSE]
  /\ subscribed = {}
  /\ disconnectListener = {}
  /\ valueListener = {}
  /\ written = [d \in Devices |-> <<>>]
  /\ lastConnectedDevice = Null
  /\ now = StartTime
  /\ scanPc = "idle"
  /\ scanAbortController = FALSE
  /\ advListener = FALSE
  /\ strayListeners = FALSE
  /\ scanTimeout = FALSE
  /\ strayTimers = 0
  /\ leScan = TRUE
  /\ buf = <<>>
  /\ decoded = Null
  /\ counts = [first |-> 0, second |-> 0, full |-> 0]
  /\ firsts = <<>>
  /\ last = [op |-> "init", arg |-> NoDevice, result |-> "none", full |-> Null,
             firsts |-> <<>>, held |-> FALSE, drop |-> FALSE, scanning |-> FALSE,
             samples |-> 0, log |-> "", recording |-> FALSE]

(***************************************************************************)
(* Reassembler: handleCharacteristicValueChanged.  The result is the       *)
(* module state and store after the handler, the branch it took and the    *)
(* FullSample handed to onFullSensorData (Null when it was not called).    *)
(***************************************************************************)
Same(s, p, h, branch) ==
  [store |-> s, part1 |-> p, isHalf |-> h, full |-> Null, branch |-> branch]

\* { ...part1, ...data }
Merge(p, data) ==
  [k \in (DOMAIN p) \cup (DOMAIN data) |-> IF k \in DOMAIN data THEN data[k] ELSE p[k]]

\* Mutant of handleCharacteristicValueChanged: part1 is not cleared after a merge.
handle_keepsPart1(s, p, h, bytes, t) ==
  LET data == getSensorData(bytes)
  IN IF data = Throw THEN Same(s, p, h, "thrown")
     ELSE IF data = Null THEN Same(s, p, h, "invalid")
     ELSE IF "sq" \in DOMAIN data
       THEN [store |-> onSensorData1(s, data.sq, data.focus, data.relax, t),
             part1 |-> data, isHalf |-> TRUE, full |-> Null, branch |-> "first"]
     ELSE IF h /\ p # Null
       THEN LET fullData == Merge(p, data)
            IN [store |-> onFullSensorData(s, fullData, t),
                part1 |-> p, isHalf |-> FALSE, full |-> fullData, branch |-> "merged"]
     ELSE Same(s, p, h, "dropped")

\* Mutant: a second segment with nothing to merge still counts as received data.
handle_touchesStore(s, p, h, bytes, t) ==
  LET data == getSensorData(bytes)
  IN IF data = Throw THEN Same(s, p, h, "thrown")
     ELSE IF data = Null THEN Same(s, p, h, "invalid")
     ELSE IF "sq" \in DOMAIN data
       THEN [store |-> onSensorData1(s, data.sq, data.focus, data.relax, t),
             part1 |-> data, isHalf |-> TRUE, full |-> Null, branch |-> "first"]
     ELSE IF h /\ p # Null
       THEN LET fullData == Merge(p, data)
            IN [store |-> onFullSensorData(s, fullData, t),
                part1 |-> Null, isHalf |-> FALSE, full |-> fullData, branch |-> "merged"]
     ELSE Same([s EXCEPT !.lastDataTs = t, !.possibleDrop = FALSE], p, h, "dropped")

\* Mutant: a first segment does not replace one already held.
handle_firstWins(s, p, h, bytes, t) ==
  LET data == getSensorData(bytes)
  IN IF data = Throw THEN Same(s, p, h, "thrown")
     ELSE IF data = Null THEN Same(s, p, h, "invalid")
     ELSE IF "sq" \in DOMAIN data
       THEN [store |-> onSensorData1(s, data.sq, data.focus, data.relax, t),
             part1 |-> IF h /\ p # Null THEN p ELSE data,
             isHalf |-> TRUE, full |-> Null, branch |-> "first"]
     ELSE IF h /\ p # Null
       THEN LET fullData == Merge(p, data)
            IN [store |-> onFullSensorData(s, fullData, t),
                part1 |-> Null, isHalf |-> FALSE, full |-> fullData, branch |-> "merged"]
     ELSE Same(s, p, h, "dropped")

\* Mutant: the held first segment stays available after a merge.
handle_mergesAgain(s, p, h, bytes, t) ==
  LET data == getSensorData(bytes)
  IN IF data = Throw THEN Same(s, p, h, "thrown")
     ELSE IF data = Null THEN Same(s, p, h, "invalid")
     ELSE IF "sq" \in DOMAIN data
       THEN [store |-> onSensorData1(s, data.sq, data.focus, data.relax, t),
             part1 |-> data, isHalf |-> TRUE, full |-> Null, branch |-> "first"]
     ELSE IF h /\ p # Null
       THEN LET fullData == Merge(p, data)
            IN [store |-> onFullSensorData(s, fullData, t),
                part1 |-> p, isHalf |-> TRUE, full |-> fullData, branch |-> "merged"]
     ELSE Same(s, p, h, "dropped")

handleCharacteristicValueChanged(s, p, h, bytes, t) ==
  LET data == getSensorData(bytes)
  IN IF data = Throw THEN Same(s, p, h, "thrown")
     ELSE IF data = Null THEN Same(s, p, h, "invalid")
     ELSE IF "sq" \in DOMAIN data
       THEN [store |-> onSensorData1(s, data.sq, data.focus, data.relax, t),
             part1 |-> data, isHalf |-> TRUE, full |-> Null, branch |-> "first"]
     ELSE IF h /\ p # Null
       THEN LET fullData == Merge(p, data)
            IN [store |-> onFullSensorData(s, fullData, t),
                part1 |-> Null, isHalf |-> FALSE, full |-> fullData, branch |-> "merged"]
     ELSE Same(s, p, h, "dropped")

Platform == <<pc, gattConnected, subscribed, disconnectListener, valueListener, written,
              lastConnectedDevice>>
Decoder == <<buf, decoded, counts>>
ScanTimers == <<scanTimeout, strayTimers>>
ScanListeners == <<scanAbortController, advListener, strayListeners>>
\* What the actions outside scanning leave alone.
Aside == <<scanPc, ScanListeners, ScanTimers, leScan, Decoder>>

\* The platform delivers a characteristicvaluechanged event of a subscribed
\* device and the handler runs.
Delivered(d, f) ==
  /\ d \in subscribed
  /\ (store.isRecording => Len(store.samples) < MaxSamples)
  /\ LET r == handleCharacteristicValueChanged(store, part1, isHalf, Frames[f], now)
     IN /\ store' = r.store
        /\ part1' = r.part1
        /\ isHalf' = r.isHalf
        /\ firsts' = IF IsFirstSegment(Frames[f])
                       THEN (IF firsts = <<>> THEN <<f>> ELSE <<firsts[Len(firsts)], f>>)
                     ELSE IF IsSecondSegment(Frames[f]) THEN <<>>
                     ELSE firsts
        /\ last' = [Op("notify", f, r.branch, r.full) EXCEPT !.log = consoleLog(Frames[f])]
  /\ UNCHANGED <<Platform, now, scanPc, ScanListeners, ScanTimers, leScan, buf, decoded>>

Notify(d, f) == Delivered(d, f) /\ UNCHANGED counts

\* Notifications counted, at most.
MaxNotified == 5

\* Notify, with the segments received and the full samples handed over counted.
CountedNotify(d, f) ==
  /\ counts.first + counts.second < MaxNotified
  /\ Delivered(d, f)
  /\ counts' =
       [first |-> counts.first + (IF IsFirstSegment(Frames[f]) THEN 1 ELSE 0),
        second |-> counts.second + (IF IsSecondSegment(Frames[f]) THEN 1 ELSE 0),
        full |-> counts.full +
                 (IF handleCharacteristicValueChanged(store, part1, isHalf, Frames[f], now).full
                       # Null THEN 1 ELSE 0)]

\* A characteristicvaluechanged event reaches the listener of a device that
\* has been disconnected since the event was queued: connectDevice registered
\* the listener and nothing ever removes it.
StaleNotify(d, f) ==
  /\ d \in valueListener
  /\ d \notin subscribed
  /\ (store.isRecording => Len(store.samples) < MaxSamples)
  /\ LET r == handleCharacteristicValueChanged(store, part1, isHalf, Frames[f], now)
     IN /\ store' = r.store
        /\ part1' = r.part1
        /\ isHalf' = r.isHalf
        /\ firsts' = IF IsFirstSegment(Frames[f])
                       THEN (IF firsts = <<>> THEN <<f>> ELSE <<firsts[Len(firsts)], f>>)
                     ELSE IF IsSecondSegment(Frames[f]) THEN <<>>
                     ELSE firsts
        /\ last' = [Op("staleNotify", f, r.branch, r.full) EXCEPT
                      !.log = consoleLog(Frames[f])]
  /\ UNCHANGED <<Platform, now, Aside>>

(***************************************************************************)
(* Connection manager: connectDevice, one action per await point.          *)
(***************************************************************************)
\* stopScan(): the controller is aborted and dropped, which removes the
\* listener bound to it; the timer is cleared and dropped; scanning is off.
\* Mutant of stopScan: everything is torn down but the store is not told.
stopScan_keepsFlag(s) ==
  [store |-> s, scanAbortController |-> FALSE,
   advListener |-> FALSE, scanTimeout |-> FALSE]

stopScan(s) ==
  [store |-> setScanning(s, FALSE), scanAbortController |-> FALSE,
   advListener |-> FALSE, scanTimeout |-> FALSE]

\* connectDevice up to its first await.
ConnectDevice(d) ==
  /\ pc[d] = "idle"
  /\ IF store.scanning
     THEN LET r == stopScan(store)
          IN /\ store' = setConnecting(r.store, d)
             /\ scanAbortController' = r.scanAbortController
             /\ advListener' = r.advListener
             /\ scanTimeout' = r.scanTimeout
     ELSE /\ store' = setConnecting(store, d)
          /\ UNCHANGED <<scanAbortController, advListener, scanTimeout>>
  /\ pc' = [pc EXCEPT ![d] = "gatt"]
  /\ written' = [written EXCEPT ![d] = <<>>]
  /\ last' = Op("connectDevice", d, "called", Null)
  /\ UNCHANGED <<part1, isHalf, gattConnected, subscribed, disconnectListener,
                 valueListener, lastConnectedDevice, now, firsts, scanPc, strayListeners, strayTimers,
                 leScan, Decoder>>

(***************************************************************************)
(* Scanning: startScan, stopScan, the scan timer, advertisements.          *)
(***************************************************************************)
\* Characters of a device name.
Chars(str) ==
  CASE str = "Mindsensor_1" -> <<"M","i","n","d","s","e","n","s","o","r","_","1">>
    [] str = "Mindsensor_2" -> <<"M","i","n","d","s","e","n","s","o","r","_","2">>
    [] str = "Mindsensor_" -> <<"M","i","n","d","s","e","n","s","o","r","_">>
    [] str = "mindsensor_3" -> <<"m","i","n","d","s","e","n","s","o","r","_","3">>
    [] str = "Heart_1" -> <<"H","e","a","r","t","_","1">>
    [] OTHER -> <<>>

\* device.name?.startsWith('Mindsensor_'); an absent name is "".
startsWith(name, prefix) ==
  LET n == Chars(name)
      q == Chars(prefix)
  IN name # "" /\ Len(n) >= Len(q) /\ SubSeq(n, 1, Len(q)) = q

\* Devices the radio may report.
Advertisers ==
  {[id |-> "d1", name |-> "Mindsensor_1"], [id |-> "d2", name |-> "Mindsensor_2"],
   [id |-> "d3", name |-> "Heart_1"], [id |-> "d4", name |-> ""],
   [id |-> "d5", name |-> "mindsensor_3"]}

\* Armed timers nothing references, at most.
MaxStrayTimers == 1

\* startScan up to its await (or to its end, without requestLEScan).
StartScan ==
  /\ scanPc = "idle"
  /\ IF leScan
     THEN /\ store' = setScanning(clearDevices(store), TRUE)
          /\ scanAbortController' = TRUE
          /\ advListener' = FALSE
          /\ strayListeners' = (strayListeners \/ advListener)
          /\ scanPc' = "requesting"
          /\ last' = Op("startScan", NoDevice, "called", Null)
     ELSE /\ store' = setScanning(setScanning(clearDevices(store), TRUE), FALSE)
          /\ UNCHANGED <<scanPc, ScanListeners>>
          /\ last' = Op("startScan", NoDevice, "unsupported", Null)
  /\ UNCHANGED <<part1, isHalf, Platform, now, firsts, ScanTimers, leScan, Decoder>>

\* requestLEScan resolves: the listener is bound to the current controller
\* and the timer armed; with no controller left, reading its signal throws
\* and the catch block runs.
ScanResolve ==
  /\ scanPc = "requesting"
  /\ scanPc' = "idle"
  /\ IF scanAbortController
     THEN /\ (scanTimeout => strayTimers < MaxStrayTimers)
          /\ advListener' = TRUE
          /\ scanTimeout' = TRUE
          /\ strayTimers' = IF scanTimeout THEN strayTimers + 1 ELSE strayTimers
          /\ UNCHANGED store
          /\ last' = Op("startScan", NoDevice, "returned", Null)
     ELSE /\ store' = setScanning(store, FALSE)
          /\ UNCHANGED <<advListener, scanTimeout, strayTimers>>
          /\ last' = Op("startScan", NoDevice, "thrown", Null)
  /\ UNCHANGED <<part1, isHalf, Platform, now, firsts, scanAbortController,
                 strayListeners, leScan, Decoder>>

\* requestLEScan rejects: the catch block runs and rethrows.
ScanReject ==
  /\ scanPc = "requesting"
  /\ scanPc' = "idle"
  /\ store' = setScanning(store, FALSE)
  /\ last' = Op("startScan", NoDevice, "thrown", Null)
  /\ UNCHANGED <<part1, isHalf, Platform, now, firsts, ScanListeners, ScanTimers,
                 leScan, Decoder>>

\* stopScan() called by the page.
StopScan ==
  /\ LET r == stopScan(store)
     IN /\ store' = r.store
        /\ scanAbortController' = r.scanAbortController
        /\ advListener' = r.advListener
        /\ scanTimeout' = r.scanTimeout
  /\ last' = Op("stopScan", NoDevice, "returned", Null)
  /\ UNCHANGED <<part1, isHalf, Platform, now, firsts, scanPc, strayListeners,
                 strayTimers, leScan, Decoder>>

\* The timer scanTimeout references expires: its callback calls stopScan().
ScanTimerFire ==
  /\ scanTimeout
  /\ LET r == stopScan(store)
     IN /\ store' = r.store
        /\ scanAbortController' = r.scanAbortController
        /\ advListener' = r.advListener
        /\ scanTimeout' = r.scanTimeout
  /\ last' = Op("scanTimer", NoDevice, "current", Null)
  /\ UNCHANGED <<part1, isHalf, Platform, now, firsts, scanPc, strayListeners,
                 strayTimers, leScan, Decoder>>

\* A timer armed by an earlier startScan and never cleared expires.
StrayTimerFire ==
  /\ strayTimers > 0
  /\ strayTimers' = strayTimers - 1
  /\ LET r == stopScan(store)
     IN /\ store' = r.store
        /\ scanAbortController' = r.scanAbortController
        /\ advListener' = r.advListener
        /\ scanTimeout' = r.scanTimeout
  /\ last' = Op("scanTimer", NoDevice, "stray", Null)
  /\ UNCHANGED <<part1, isHalf, Platform, now, firsts, scanPc, strayListeners,
                 leScan, Decoder>>

\* The advertisementreceived listener of startScan.
onAdvertisement(s, device) ==
  IF startsWith(device.name, "Mindsensor_") THEN addDevice(s, device) ELSE s

\* The platform reports an advertisement while a listener is attached.
Advertise(device) ==
  /\ advListener \/ strayListeners
  /\ store' = onAdvertisement(store, device)
  /\ last' = Op("advertisement", device.id, "returned", Null)
  /\ UNCHANGED <<part1, isHalf, Platform, now, firsts, Aside>>

\* The start command written to the write characteristic.
ENABLE_DATA == <<77, 71, 1>>

\* Mutant of NextStep: the start command is not written.
NextStep_skipsEnable(step) ==
  CASE step = "gatt" -> "service"
    [] step = "service" -> "writeChar"
    [] step = "writeChar" -> "notifyChar"
    [] step = "enable" -> "notifyChar"
    [] step = "notifyChar" -> "subscribe"

\* The call awaited after the one at `step` has resolved.
NextStep(step) ==
  CASE step = "gatt" -> "service"
    [] step = "service" -> "writeChar"
    [] step = "writeChar" -> "enable"
    [] step = "enable" -> "notifyChar"
    [] step = "notifyChar" -> "subscribe"

\* The platform resolves the awaited promise of a step before the last one.
HandshakeResolve(d) ==
  /\ pc[d] \in {"gatt", "service", "writeChar", "enable", "notifyChar"}
  /\ (pc[d] # "gatt" => gattConnected[d])
  /\ gattConnected' = [gattConnected EXCEPT ![d] = TRUE]
  /\ pc' = [pc EXCEPT ![d] = NextStep(pc[d])]
  /\ written' = IF NextStep(pc[d]) = "enable"
                THEN [written EXCEPT ![d] = Append(written[d], ENABLE_DATA)]
                ELSE written
  /\ last' = Op("resolve", d, pc[d], Null)
  /\ UNCHANGED <<store, part1, isHalf, subscribed, disconnectListener, valueListener,
                 lastConnectedDevice, now, firsts, Aside>>

\* startNotifications resolves: the rest of the try block runs to completion.
HandshakeComplete(d) ==
  /\ pc[d] = "subscribe"
  /\ gattConnected[d]
  /\ subscribed' = subscribed \cup {d}
  /\ valueListener' = valueListener \cup {d}
  /\ disconnectListener' = disconnectListener \cup {d}
  /\ store' = setConnected(store, d)
  /\ lastConnectedDevice' = [id |-> d, connectedAt |-> now]
  /\ part1' = Null
  /\ isHalf' = FALSE
  /\ firsts' = <<>>
  /\ pc' = [pc EXCEPT ![d] = "idle"]
  /\ last' = Op("connected", d, "returned", Null)
  /\ UNCHANGED <<gattConnected, written, now, Aside>>

\* The store after the catch block of connectDevice.
connectFailed(s) == setConnecting(s, NoDevice)

\* The platform rejects the awaited promise: the catch block runs and rethrows.
HandshakeReject(d) ==
  /\ pc[d] # "idle"
  /\ store' = connectFailed(store)
  /\ pc' = [pc EXCEPT ![d] = "idle"]
  /\ last' = Op("connectFailed", d, pc[d], Null)
  /\ UNCHANGED <<part1, isHalf, gattConnected, subscribed, disconnectListener,
                 valueListener, written,
                 lastConnectedDevice, now, firsts, Aside>>

(***************************************************************************)
(* Disconnects.                                                            *)
(***************************************************************************)
\* Module state and store after handleDisconnect.
handleDisconnect(s) == [store |-> disconnect(s), part1 |-> Null, isHalf |-> FALSE]

\* The link to d drops; the platform fires gattserverdisconnected at d.
LinkLoss(d) ==
  /\ gattConnected[d]
  /\ gattConnected' = [gattConnected EXCEPT ![d] = FALSE]
  /\ subscribed' = subscribed \ {d}
  /\ IF d \in disconnectListener
     THEN LET r == handleDisconnect(store)
          IN /\ store' = r.store
             /\ part1' = r.part1
             /\ isHalf' = r.isHalf
             /\ firsts' = <<>>
             /\ last' = Op("handleDisconnect", d, "returned", Null)
     ELSE /\ UNCHANGED <<store, part1, isHalf, firsts>>
          /\ last' = Op("linkLoss", d, "unheard", Null)
  /\ UNCHANGED <<pc, disconnectListener, valueListener, written, lastConnectedDevice,
                 now, Aside>>

\* The device disconnectDevice acts on: its argument, else the connected device.
targetDevice(s, device) == IF device # NoDevice THEN device ELSE s.connected

\* Module state and store after disconnectDevice found a target.
disconnectTarget(s) == [store |-> disconnect(s), part1 |-> Null, isHalf |-> FALSE]

\* disconnectDevice(device?)
DisconnectDevice(device) ==
  LET target == targetDevice(store, device)
  IN /\ IF target = NoDevice
        THEN /\ UNCHANGED <<store, part1, isHalf, gattConnected, subscribed,
                            disconnectListener, firsts>>
             /\ last' = Op("disconnectDevice", device, "noTarget", Null)
        ELSE LET r == disconnectTarget(store)
             IN /\ disconnectListener' = disconnectListener \ {target}
                /\ gattConnected' = [gattConnected EXCEPT ![target] = FALSE]
                /\ subscribed' = subscribed \ {target}
                /\ store' = r.store
                /\ part1' = r.part1
                /\ isHalf' = r.isHalf
                /\ firsts' = <<>>
                /\ last' = Op("disconnectDevice", device, "returned", Null)
     /\ UNCHANGED <<pc, valueListener, written, lastConnectedDevice, now, Aside>>

(***************************************************************************)
(* Watchdog, recording controls, clock.                                    *)
(***************************************************************************)
StoreOnly == <<part1, isHalf, Platform, now, firsts, Aside>>

\* One firing of the interval of setupDropCheckInterval.
Tick ==
  /\ store' = checkDropConnection(store, now)
  /\ last' = Op("tick", NoDevice, "returned", Null)
  /\ UNCHANGED StoreOnly

StartRecord ==
  /\ store' = startRecord(store, now)
  /\ last' = Op("startRecord", NoDevice, "returned", Null)
  /\ UNCHANGED StoreOnly

StopRecord ==
  /\ store' = stopRecord(store)
  /\ last' = Op("stopRecord", NoDevice, "returned", Null)
  /\ UNCHANGED StoreOnly

ClearData ==
  /\ store' = clearData(store)
  /\ last' = Op("clearData", NoDevice, "returned", Null)
  /\ UNCHANGED StoreOnly

Reset ==
  /\ store' = reset(store)
  /\ last' = Op("reset", NoDevice, "returned", Null)
  /\ UNCHANGED StoreOnly

Advance(dt) ==
  /\ now + dt <= StartTime + MaxElapsed
  /\ now' = now + dt
  /\ last' = Op("advance", NoDevice, "returned", Null)
  /\ UNCHANGED <<store, part1, isHalf, Platform, firsts, Aside>>

(***************************************************************************)
(* Spec: the life of one connection -- handshake, notifications, both      *)
(* disconnect paths, the watchdog and the clock.                           *)
(***************************************************************************)
Next ==
  \/ \E f \in AllFrames : Notify("d1", f)
  \/ ConnectDevice("d1")
  \/ HandshakeResolve("d1")
  \/ HandshakeComplete("d1")
  \/ HandshakeReject("d1")
  \/ LinkLoss("d1")
  \/ \E d \in {"d1", NoDevice} : DisconnectDevice(d)
  \/ Tick
  \/ \E dt \in TimeSteps : Advance(dt)

Spec == Init /\ [][Next]_vars

(***************************************************************************)
(* SpecRecord: recording sessions over one connection.                     *)
(***************************************************************************)
NextRecord ==
  \/ \E f \in ValidFrames : Notify("d1", f)
  \/ ConnectDevice("d1")
  \/ HandshakeResolve("d1")
  \/ HandshakeComplete("d1")
  \/ LinkLoss("d1")
  \/ DisconnectDevice(NoDevice)
  \/ StartRecord
  \/ StopRecord
  \/ ClearData
  \/ Reset

SpecRecord == Init /\ [][NextRecord]_vars

(***************************************************************************)
(* SpecTwo: two devices; connectDevice and disconnectDevice may be called  *)
(* for either at any time, as the page allows while nothing is connected.  *)
(***************************************************************************)
\* Frames each device sends: a first and a second segment.
TwoFrames == {1, 3}

NextTwo ==
  \/ \E d \in Devices, f \in TwoFrames : Notify(d, f)
  \/ \E d \in Devices : ConnectDevice(d)
  \/ \E d \in Devices : HandshakeResolve(d)
  \/ \E d \in Devices : HandshakeComplete(d)
  \/ \E d \in Devices : LinkLoss(d)
  \/ DisconnectDevice(NoDevice)

SpecTwo == Init /\ [][NextTwo]_vars

(***************************************************************************)
(* SpecStale: the life of one connection, with notification events that    *)
(* outlive it.                                                             *)
(***************************************************************************)
NextStale ==
  \/ \E f \in TwoFrames : Notify("d1", f)
  \/ \E f \in TwoFrames : StaleNotify("d1", f)
  \/ ConnectDevice("d1")
  \/ HandshakeResolve("d1")
  \/ HandshakeComplete("d1")
  \/ LinkLoss("d1")
  \/ DisconnectDevice(NoDevice)
  \/ Tick
  \/ \E dt \in TimeSteps : Advance(dt)

SpecStale == Init /\ [][NextStale]_vars

(***************************************************************************)
(* SpecCount: notifications counted over connects and disconnects.         *)
(***************************************************************************)
NextCount ==
  \/ \E f \in ValidFrames : CountedNotify("d1", f)
  \/ ConnectDevice("d1")
  \/ HandshakeResolve("d1")
  \/ HandshakeComplete("d1")
  \/ LinkLoss("d1")
  \/ DisconnectDevice(NoDevice)

SpecCount == Init /\ [][NextCount]_vars

(***************************************************************************)
(* SpecWatch: the watchdog over connections that come and go, and a store  *)
(* that may be reset.                                                      *)
(***************************************************************************)
NextWatch ==
  \/ \E f \in TwoFrames : Notify("d1", f)
  \/ ConnectDevice("d1")
  \/ HandshakeResolve("d1")
  \/ HandshakeComplete("d1")
  \/ LinkLoss("d1")
  \/ DisconnectDevice(NoDevice)
  \/ Tick
  \/ Reset
  \/ \E dt \in TimeSteps : Advance(dt)

SpecWatch == Init /\ [][NextWatch]_vars

(***************************************************************************)
(* SpecScan: scanning interleaved with one connection.                     *)
(***************************************************************************)
\* A browser without requestLEScan is the other possible platform.
InitScan ==
  \/ Init
  \/ /\ store = InitialState
     /\ part1 = Null
     /\ isHalf = FALSE
     /\ pc = [d \in Devices |-> "idle"]
     /\ gattConnected = [d \in Devices |-> FALSE]
     /\ subscribed = {}
     /\ disconnectListener = {}
     /\ valueListener = {}
     /\ written = [d \in Devices |-> <<>>]
     /\ lastConnectedDevice = Null
     /\ now = StartTime
     /\ scanPc = "idle"
     /\ scanAbortController = FALSE
     /\ advListener = FALSE
     /\ strayListeners = FALSE
     /\ scanTimeout = FALSE
     /\ strayTimers = 0
     /\ leScan = FALSE
     /\ buf = <<>>
     /\ decoded = Null
     /\ counts = [first |-> 0, second |-> 0, full |-> 0]
     /\ firsts = <<>>
     /\ last = [op |-> "init", arg |-> NoDevice, result |-> "none", full |-> Null,
                firsts |-> <<>>, held |-> FALSE, drop |-> FALSE, scanning |-> FALSE,
             samples |-> 0, log |-> "", recording |-> FALSE]

NextScan ==
  \/ StartScan
  \/ ScanResolve
  \/ ScanReject
  \/ StopScan
  \/ ScanTimerFire
  \/ StrayTimerFire
  \/ \E device \in Advertisers : Advertise(device)
  \/ ConnectDevice("d1")
  \/ HandshakeResolve("d1")
  \/ HandshakeComplete("d1")
  \/ HandshakeReject("d1")
  \/ LinkLoss("d1")
  \/ DisconnectDevice(NoDevice)

SpecScan == InitScan /\ [][NextScan]_vars

\* SpecScanLive: SpecScan with timers that do expire: an armed timer's
\* callback eventually runs unless the timer is cleared first.
SpecScanLive ==
  InitScan /\ [][NextScan]_vars /\ WF_vars(ScanTimerFire) /\ WF_vars(StrayTimerFire)

(***************************************************************************)
(* SpecDecode: getSensorData applied to buffers of every length up to      *)
(* MaxLen, over both prefixes and an unknown one.                          *)
(***************************************************************************)
\* 3-byte groups that exercise every byte position and the rounding of
\* delta (x*3/50) and theta (x/3) on both sides of a half.
DeltaBytes == {<<0, 0, 0>>, <<0, 0, 8>>, <<0, 0, 9>>, <<0, 0, 25>>, <<0, 0, 100>>,
               <<1, 2, 3>>, <<255, 255, 255>>}
ThetaBytes == {<<0, 0, 1>>, <<0, 0, 2>>, <<0, 0, 30>>, <<1, 2, 3>>, <<255, 255, 255>>}
AlphaBytes == {<<0, 1, 244>>, <<0, 2, 188>>, <<1, 2, 3>>, <<255, 255, 255>>}
BetaBytes == {<<0, 0, 7>>, <<1, 2, 3>>, <<255, 255, 255>>}

FirstBuffers ==
  {<<170, 1, 1, 15, sq, 69, 60>> \o d \o t \o la \o ha :
     sq \in {0, 2}, d \in DeltaBytes, t \in ThetaBytes, la \in AlphaBytes, ha \in AlphaBytes}

SecondBuffers ==
  {<<170, 1, 2, 12>> \o lb \o hb \o lg \o hg :
     lb \in BetaBytes, hb \in BetaBytes, lg \in BetaBytes, hg \in BetaBytes}

\* Buffers cut short and buffers with bytes past the last field.
Cut(b) == {SubSeq(b, 1, n) : n \in 0..Len(b)}
RECURSIVE Fill(_, _)
Fill(n, x) == IF n <= 0 THEN <<>> ELSE <<x>> \o Fill(n - 1, x)
Padded(b) == {b \o Fill(n, x) : n \in 1..(MaxLen - Len(b)), x \in {0, 255}}

BaseBuffers == {FrameA, FrameB, FrameS, FrameUnknown, <<171, 1, 1, 15>> \o SubSeq(FrameA, 5, 19)}

TestBuffers ==
  FirstBuffers \cup SecondBuffers
    \cup UNION {Cut(b) : b \in BaseBuffers}
    \cup UNION {Padded(b) : b \in BaseBuffers}

InitDecode ==
  /\ store = InitialState
  /\ part1 = Null
  /\ isHalf = FALSE
  /\ pc = [d \in Devices |-> "idle"]
  /\ gattConnected = [d \in Devices |-> FALSE]
  /\ subscribed = {}
  /\ disconnectListener = {}
  /\ valueListener = {}
  /\ written = [d \in Devices |-> <<>>]
  /\ lastConnectedDevice = Null
  /\ now = StartTime
  /\ scanPc = "idle"
  /\ scanAbortController = FALSE
  /\ advListener = FALSE
  /\ strayListeners = FALSE
  /\ scanTimeout = FALSE
  /\ strayTimers = 0
  /\ leScan = TRUE
  /\ buf \in TestBuffers
  /\ decoded = Null
  /\ counts = [first |-> 0, second |-> 0, full |-> 0]
  /\ firsts = <<>>
  /\ last = [op |-> "init", arg |-> NoDevice, result |-> "none", full |-> Null,
             firsts |-> <<>>, held |-> FALSE, drop |-> FALSE, scanning |-> FALSE,
             samples |-> 0, log |-> "", recording |-> FALSE]

\* getSensorData(buf)
Decode ==
  /\ last.op = "init"
  /\ decoded' = getSensorData(buf)
  /\ last' = Op("decode", NoDevice, "returned", Null)
  /\ UNCHANGED <<store, part1, isHalf, Platform, now, buf, counts, firsts, scanPc,
                 ScanListeners, ScanTimers, leScan>>

NextDecode == Decode

SpecDecode == InitDecode /\ [][NextDecode]_vars

(***************************************************************************)
(* Properties.                                                             *)
(***************************************************************************)
TypeOK ==
  /\ store.connectionState \in {"idle", "scanning", "connecting", "connected"}
  /\ isHalf \in BOOLEAN

\* The frame of the last notification.
LastFrame == Frames[last.arg]

FirstKeys == {"sq", "focus", "relax", "delta", "theta", "lowAlpha", "highAlpha"}
SecondKeys == {"lowBeta", "highBeta", "lowGamma", "highGamma"}

\* The 11 fields of a FullSample, from a decoded first and second segment.
Full11(a, b) ==
  [sq |-> a.sq, focus |-> a.focus, relax |-> a.relax, delta |-> a.delta,
   theta |-> a.theta, lowAlpha |-> a.lowAlpha, highAlpha |-> a.highAlpha,
   lowBeta |-> b.lowBeta, highBeta |-> b.highBeta,
   lowGamma |-> b.lowGamma, highGamma |-> b.highGamma]

First7(full) == [k \in FirstKeys |-> full[k]]

\* C1: a second segment delivered after exactly one first segment since the
\* PartialSample was last empty hands onFullSensorData one sample, made of the
\* 7 fields of that first segment and the 4 of that second segment, and
\* leaves part1 / isHalf empty; the first segment itself hands over nothing.
C1_FirstThenSecond ==
  /\ (last.op = "notify" /\ IsSecondSegment(LastFrame) /\ Len(last.firsts) = 1) =>
        /\ last.result = "merged"
        /\ last.full = Full11(getSensorData(Frames[last.firsts[1]]), getSensorData(LastFrame))
        /\ part1 = Null
        /\ isHalf = FALSE
  /\ (last.op = "notify" /\ IsFirstSegment(LastFrame)) => last.full = Null

C1_Witness ==
  /\ last.op = "notify"
  /\ last.firsts = <<1>>
  /\ IsSecondSegment(LastFrame)
  /\ last.full # Null
  /\ last.full.highAlpha = 700
  /\ last.full.lowGamma = 300000

\* C2 (as claimed): when a handshake step fails and connectDevice rethrows,
\* ConnectionState is Idle and no connectingId is retained.
C2_FailureResetsToIdle ==
  last.op = "connectFailed" =>
    /\ store.connectionState = "idle"
    /\ store.connectingId = NoDevice

C4_SeriesLengths ==
  \A k \in SeriesKeys : Len(store.series[k]) = Len(store.samples)

C4_Witness ==
  /\ Len(store.samples) = 2
  /\ \A k \in SeriesKeys : Len(store.series[k]) = 2
  /\ last.op = "stopRecord"

\* Time since the last store update, or since the connection was made when
\* it has delivered nothing yet.
Silence ==
  IF store.lastDataTs # UndefinedNum THEN now - store.lastDataTs
  ELSE IF lastConnectedDevice # Null THEN now - lastConnectedDevice.connectedAt
  ELSE 0

\* C5 (as claimed): a watchdog tick taken while Connected after more than
\* 3000 ms without a store update leaves possibleDrop true, also when the
\* connection has delivered no sample yet.
C5_TickRaisesDrop ==
  (last.op = "tick" /\ store.connectionState = "connected" /\ Silence > 3000) =>
    store.possibleDrop

\* C6: a valid first segment, or a second segment that completes a sample,
\* leaves possibleDrop false and lastDataTs at the time of arrival.
C6_DataClearsDrop ==
  (/\ last.op = "notify"
   /\ (IsFirstSegment(LastFrame) \/ (IsSecondSegment(LastFrame) /\ last.held))) =>
    /\ ~store.possibleDrop
    /\ store.lastDataTs = now

C6_Witness ==
  /\ last.op = "notify"
  /\ IsFirstSegment(LastFrame)
  /\ last.drop
  /\ ~store.possibleDrop

\* C7: a second segment delivered while the PartialSample is empty hands
\* over no sample and changes neither the PartialSample nor the store.
C7_SecondAloneIsDropped ==
  [][(last'.op = "notify" /\ IsSecondSegment(Frames[last'.arg]) /\ ~Held) =>
       /\ last'.full = Null
       /\ ~Held'
       /\ UNCHANGED <<store, part1, isHalf>>]_vars

C7_Witness ==
  /\ last.op = "notify"
  /\ IsSecondSegment(LastFrame)
  /\ ~last.held
  /\ store.lastDataTs # UndefinedNum

\* C8: a first segment delivered while another is held replaces it, and the
\* sample made by the next second segment carries the fields of the later
\* first segment, not of the earlier one.
C8_LaterFirstWins ==
  /\ (last.op = "notify" /\ IsFirstSegment(LastFrame) /\ last.held) =>
        /\ part1 = getSensorData(LastFrame)
        /\ isHalf
        /\ last.full = Null
  /\ (last.op = "notify" /\ IsSecondSegment(LastFrame) /\ Len(last.firsts) = 2) =>
        /\ last.full # Null
        /\ First7(last.full) = getSensorData(Frames[last.firsts[2]])
        /\ (last.firsts[1] # last.firsts[2] =>
              First7(last.full) # getSensorData(Frames[last.firsts[1]]))

C8_Witness ==
  /\ last.op = "notify"
  /\ IsSecondSegment(LastFrame)
  /\ last.firsts = <<1, 2>>
  /\ last.full # Null
  /\ last.full.focus = 50

\* C9: a malformed notification (under 4 bytes, unknown prefix, or too short
\* for its prefix) is a decode failure that does not throw, hands over no
\* sample, changes neither the PartialSample nor the store, and leaves the
\* notification stream subscribed.
C9_MalformedIsAbsorbed ==
  [][(last'.op = "notify" /\ Malformed(Frames[last'.arg])) =>
       /\ last'.result = "invalid"
       /\ last'.full = Null
       /\ UNCHANGED <<store, part1, isHalf, subscribed>>]_vars

C9_Witness ==
  /\ last.op = "notify"
  /\ LastFrame = FrameTrunc1
  /\ last.result = "invalid"
  /\ Held
  /\ "d1" \in subscribed

\* uint24 at 0-based offset i of the buffer, big-endian.
Uint24(b, i) == b[i + 1] * 65536 + b[i + 2] * 256 + b[i + 3]

\* n is num / den rounded to the nearest integer, halves up.
IsRounded(n, num, den) == 2 * den * n <= 2 * num + den /\ 2 * num + den < 2 * den * (n + 1)

\* C10: for a buffer of length >= 19 with prefix AA 01 01 0F, getSensorData
\* returns the seven first-segment fields by the stated formulas, whatever
\* follows offset 18.
C10_FirstSegmentFields ==
  (last.op = "decode" /\ Len(buf) >= 19 /\ SubSeq(buf, 1, 4) = <<170, 1, 1, 15>>) =>
    /\ decoded # Null
    /\ decoded # Throw
    /\ DOMAIN decoded = FirstKeys
    /\ decoded.sq = buf[5]
    /\ decoded.focus = buf[6]
    /\ decoded.relax = buf[7]
    /\ IsRounded(decoded.delta, 3 * Uint24(buf, 7), 50)
    /\ IsRounded(decoded.theta, Uint24(buf, 10), 3)
    /\ decoded.lowAlpha = Uint24(buf, 13)
    /\ decoded.highAlpha = Uint24(buf, 16)
    /\ (SubSeq(buf, 8, 19) = <<0, 0, 100, 0, 0, 30, 0, 1, 244, 0, 2, 188>> =>
          /\ decoded.delta = 6
          /\ decoded.theta = 10
          /\ decoded.lowAlpha = 500
          /\ decoded.highAlpha = 700)

C10_Witness ==
  /\ last.op = "decode"
  /\ Len(buf) = 20
  /\ SubSeq(buf, 1, 19) = <<170, 1, 1, 15, 0, 69, 60, 0, 0, 100, 0, 0, 30, 0, 1, 244, 0, 2, 188>>
  /\ decoded # Null
  /\ decoded.delta = 6

\* C11: for a buffer of length >= 16 with prefix AA 01 02 0C, getSensorData
\* returns exactly the four second-segment fields, each the big-endian uint24
\* at its offset, with no sq field, so that the reassembler never takes the
\* first-segment branch for it: it merges it with a held first segment and
\* drops it otherwise.
C11_SecondSegmentFields ==
  (last.op = "decode" /\ Len(buf) >= 16 /\ SubSeq(buf, 1, 4) = <<170, 1, 2, 12>>) =>
    /\ decoded # Null
    /\ decoded # Throw
    /\ DOMAIN decoded = SecondKeys
    /\ "sq" \notin DOMAIN decoded
    /\ decoded.lowBeta = Uint24(buf, 4)
    /\ decoded.highBeta = Uint24(buf, 7)
    /\ decoded.lowGamma = Uint24(buf, 10)
    /\ decoded.highGamma = Uint24(buf, 13)
    /\ handleCharacteristicValueChanged(store, Null, FALSE, buf, now).branch = "dropped"
    /\ handleCharacteristicValueChanged(store, getSensorData(FrameA), TRUE, buf, now).branch
         = "merged"

C11_Witness ==
  /\ last.op = "decode"
  /\ Len(buf) = 18
  /\ SubSeq(buf, 1, 16) = FrameS
  /\ decoded # Null
  /\ decoded.lowBeta = 1000
  /\ decoded.highBeta = 2000
  /\ decoded.lowGamma = 300000
  /\ decoded.highGamma = 4

\* C12 (as claimed): two connectDevice calls are never suspended between
\* handshake steps at the same time; a second call is rejected or tears the
\* first down before it proceeds.
C12_OneHandshakeInFlight ==
  Cardinality({d \in Devices : pc[d] # "idle"}) <= 1

\* C13 (as claimed): a notification callback that runs for a device after
\* handleDisconnect or disconnectDevice disconnected it changes neither the
\* PartialSample nor the store.
C13_StaleHasNoEffect ==
  [][last'.op = "staleNotify" => UNCHANGED <<store, part1, isHalf>>]_vars

\* C14 (as claimed): at most one device at a time has its notification
\* stream subscribed and delivering to the reassembler.
C14_SingleSubscription ==
  Cardinality(subscribed) <= 1

\* C15 (as claimed): connectDevice invoked while the scanning flag is set
\* leaves, by the time ConnectionState is Connecting and the first handshake
\* step is issued, the flag false, no scan timer armed and no advertisement
\* listener attached.
C15_ConnectStopsScan ==
  [][(last'.op = "connectDevice" /\ store.scanning) =>
       /\ store'.connectionState = "connecting"
       /\ pc'[last'.arg] = "gatt"
       /\ ~store'.scanning
       /\ ~scanTimeout'
       /\ strayTimers' = 0
       /\ ~advListener'
       /\ ~strayListeners']_vars

\* Some recording buffer is longer after the step than before it.
BuffersGrow ==
  \/ Len(store'.samples) > Len(store.samples)
  \/ \E k \in SeriesKeys : Len(store'.series[k]) > Len(store.series[k])

\* The step handed a full sample to onFullSensorData.
FullSampleStep == last'.op = "notify" /\ last'.result = "merged"

\* C16: the buffers grow only in a step that hands a full sample to
\* onFullSensorData while isRecording is true, and then samples and each
\* series take exactly that sample at the end; a full sample handed over
\* while isRecording is false leaves the buffers as they were and still sets
\* focus, relax, currentSensor and lastDataTs.
C16_BuffersGrowOnlyWhileRecording ==
  [][/\ BuffersGrow => (FullSampleStep /\ store.isRecording)
     /\ (FullSampleStep /\ store.isRecording) =>
          /\ store'.samples = Append(store.samples,
                [t |-> now, focus |-> last'.full.focus, relax |-> last'.full.relax])
          /\ \A k \in SeriesKeys :
                store'.series[k] = Append(store.series[k], last'.full[k])
     /\ (FullSampleStep /\ ~store.isRecording) =>
          /\ store'.samples = store.samples
          /\ store'.series = store.series
     /\ FullSampleStep =>
          /\ store'.focus = last'.full.focus
          /\ store'.relax = last'.full.relax
          /\ store'.currentSensor = last'.full
          /\ store'.lastDataTs = now]_vars

C16_Witness ==
  /\ last.op = "notify"
  /\ last.result = "merged"
  /\ ~store.isRecording
  /\ Len(store.samples) = 1
  /\ store.currentSensor = last.full
  /\ store.currentSensor.focus = 50
  /\ store.samples[1].focus = 69

\* C17: a watchdog tick changes nothing but possibleDrop: ConnectionState,
\* the connected device, scanning, the recording state, the buffers, every
\* other store field, the PartialSample, the GATT link, the subscriptions
\* and the listeners are as before, in every state.
C17_TickOnlyWritesDrop ==
  [][last'.op = "tick" =>
       /\ store' = [store EXCEPT !.possibleDrop = store'.possibleDrop]
       /\ UNCHANGED <<part1, isHalf, pc, gattConnected, subscribed, disconnectListener,
                      valueListener, scanTimeout, advListener>>]_vars

C17_Witness ==
  /\ last.op = "tick"
  /\ ~last.drop
  /\ store.possibleDrop
  /\ store.connectionState = "connected"
  /\ store.connected = "d1"
  /\ "d1" \in subscribed
  /\ gattConnected["d1"]

\* The await points of connectDevice, in the order of the claim: GATT
\* connect, service, write characteristic, write of the start command,
\* notify characteristic, startNotifications.
HandshakeOrder == <<"gatt", "service", "writeChar", "enable", "notifyChar", "subscribe">>

\* C18: a connectDevice call moves through the await points of
\* HandshakeOrder one at a time and in that order (or leaves by failing);
\* it completes only from the last one, having written [77, 71, 1] exactly
\* once, before it subscribed; the disconnect callback is registered and
\* ConnectionState set to Connected in that completing step and not before.
C18_HandshakeOrder ==
  [][\A d \in Devices :
       /\ pc'[d] # pc[d] =>
            \/ pc[d] = "idle" /\ pc'[d] = HandshakeOrder[1]
            \/ \E i \in 1..(Len(HandshakeOrder) - 1) :
                 pc[d] = HandshakeOrder[i] /\ pc'[d] = HandshakeOrder[i + 1]
            \/ pc'[d] = "idle" /\ last'.op = "connectFailed"
            \/ /\ pc[d] = HandshakeOrder[Len(HandshakeOrder)]
               /\ pc'[d] = "idle"
               /\ last'.op = "connected"
       /\ pc'[d] \in {"gatt", "service", "writeChar"} => written'[d] = <<>>
       /\ pc'[d] \in {"enable", "notifyChar", "subscribe"} => written'[d] = <<ENABLE_DATA>>
       /\ (last'.op = "connected" /\ last'.arg = d) =>
            /\ pc[d] = "subscribe"
            /\ written'[d] = << <<77, 71, 1>> >>
            /\ d \in subscribed'
            /\ d \in disconnectListener'
            /\ store'.connectionState = "connected"
            /\ store'.connected = d
       /\ (store'.connected = d /\ store.connected # d) => last'.op = "connected"
       /\ (d \in subscribed' /\ d \notin subscribed) => last'.op = "connected"]_vars

C18_Witness ==
  /\ last.op = "connected"
  /\ last.arg = "d1"
  /\ written["d1"] = <<ENABLE_DATA>>
  /\ "d1" \in subscribed
  /\ "d1" \in disconnectListener
  /\ store.connectionState = "connected"
  /\ now > StartTime

\* The step ends a scan: stopScan ran, called by the page or by a scan
\* timer, while the scanning flag was set.
ScanEnds == last'.op \in {"stopScan", "scanTimer"} /\ store.scanning

\* C19 (as claimed): when a scan ends by timer expiry or stopScan,
\* ConnectionState is Idle, the scanning flag false, the scan timer
\* disarmed and the discovered-device list empty.
C19_ScanEndReturnsToIdle ==
  [][ScanEnds =>
       /\ store'.connectionState = "idle"
       /\ ~store'.scanning
       /\ ~scanTimeout'
       /\ store'.devices = <<>>]_vars

\* C19 (amended): when a scan ends by timer expiry or stopScan, the scanning
\* flag is false, the timer held in scanTimeout is disarmed, the listener of
\* the current controller is detached, and ConnectionState is Connected if
\* a device is connected and Idle otherwise; the discovered devices stay
\* listed.
C19_ScanEndKeepsDevices ==
  [][ScanEnds =>
       /\ ~store'.scanning
       /\ ~scanTimeout'
       /\ ~scanAbortController'
       /\ ~advListener'
       /\ store'.connectionState =
            (IF store.connected # NoDevice THEN "connected" ELSE "idle")
       /\ store'.devices = store.devices
       /\ store'.connected = store.connected]_vars

C19_Witness ==
  /\ last.op = "scanTimer"
  /\ last.result = "current"
  /\ last.scanning
  /\ ~store.scanning
  /\ ~scanTimeout
  /\ Len(store.devices) = 2
  /\ store.connectionState = "connected"

\* C20: the step in which connectDevice completes leaves ConnectionState
\* Connected, the connected device the one passed to connectDevice,
\* connectingId cleared, possibleDrop false and the PartialSample empty; the
\* transition to Connected and the reset of the PartialSample are one step,
\* so no notification is handled between them.
C20_ConnectedState ==
  [][/\ last'.op = "connected" =>
          /\ store'.connectionState = "connected"
          /\ store'.connected = last'.arg
          /\ store'.connectingId = NoDevice
          /\ ~store'.possibleDrop
          /\ part1' = Null
          /\ isHalf' = FALSE
     /\ (store'.connected # store.connected /\ store'.connected # NoDevice) =>
          (last'.op = "connected" /\ ~Held')]_vars

C20_Witness ==
  /\ last.op = "connected"
  /\ last.arg = "d1"
  /\ last.held
  /\ last.drop
  /\ store.connected = "d1"
  /\ store.connectionState = "connected"
  /\ ~Held

\* The store with the drop flag raised and a scan running, whatever else it holds.
Flagged(s) == [s EXCEPT !.possibleDrop = TRUE, !.scanning = TRUE, !.connectionState = "scanning"]

\* C21: clearData leaves samples and the ten series empty and recordStartTime
\* undefined, and leaves ConnectionState, the connected device, scanning,
\* possibleDrop, lastDataTs and the recording flag as they were (the only
\* other field it resets is currentSensor).
C21_ClearDataFrame ==
  [][last'.op = "clearData" =>
       /\ store'.samples = <<>>
       /\ \A k \in SeriesKeys : store'.series[k] = <<>>
       /\ store'.recordStartTime = UndefinedNum
       /\ store' = [store EXCEPT !.samples = <<>>, !.series = initialSeriesData,
                                 !.recordStartTime = UndefinedNum, !.currentSensor = Null]
       /\ clearData(Flagged(store)).possibleDrop
       /\ clearData(Flagged(store)).scanning
       /\ clearData(Flagged(store)).connectionState = "scanning"
       /\ UNCHANGED <<part1, isHalf, subscribed, gattConnected>>]_vars

C21_Witness ==
  /\ last.op = "clearData"
  /\ last.samples = 2
  /\ store.samples = <<>>
  /\ store.recordStartTime = UndefinedNum
  /\ store.connectionState = "connected"
  /\ store.connected = "d1"
  /\ store.lastDataTs = StartTime
  /\ store.isRecording

\* C22: stopRecord sets isRecording false and changes nothing else, so the
\* samples and the ten series are as they were; and while isRecording is
\* false no step changes them except clearData (or reset): sample arrivals,
\* connects and disconnects leave them alone until the next startRecord.
C22_StopRecordRetainsBuffers ==
  [][/\ last'.op = "stopRecord" =>
          /\ ~store'.isRecording
          /\ store' = [store EXCEPT !.isRecording = FALSE]
     /\ (/\ ~store.isRecording
         /\ (store'.samples # store.samples \/ store'.series # store.series)) =>
          last'.op \in {"clearData", "reset"}]_vars

C22_Witness ==
  /\ last.op = "notify"
  /\ last.result = "merged"
  /\ last.samples = 2
  /\ ~store.isRecording
  /\ Len(store.samples) = 2
  /\ \A k \in SeriesKeys : Len(store.series[k]) = 2
  /\ store.recordStartTime # UndefinedNum
  /\ store.connected = "d1"

\* C23 (as claimed): every notification that fails to decode (under 4
\* bytes, unknown prefix, too short for its prefix) produces a diagnostic.
C23_FailureIsLogged ==
  (last.op = "notify" /\ Malformed(LastFrame)) => last.log # ""

\* C24: the step that handles a valid first segment stores it as the
\* PartialSample and, in that same step, sets focus and relax to its bytes
\* 5 and 6, wearOk to (byte 4 = 0) and lastDataTs to the time of arrival;
\* it hands no sample to onFullSensorData and leaves samples, the ten
\* series and currentSensor as they were, recording or not.
C24_FirstSegmentPublished ==
  [][(last'.op = "notify" /\ IsFirstSegment(Frames[last'.arg])) =>
       LET b == Frames[last'.arg]
       IN /\ part1' = getSensorData(b)
          /\ isHalf'
          /\ store'.focus = b[6]
          /\ store'.relax = b[7]
          /\ store'.wearOk = (b[5] = 0)
          /\ store'.lastDataTs = now
          /\ last'.full = Null
          /\ store'.samples = store.samples
          /\ store'.series = store.series
          /\ store'.currentSensor = store.currentSensor]_vars

C24_Witness ==
  /\ last.op = "notify"
  /\ LastFrame = FrameB
  /\ ~last.held
  /\ Held
  /\ store.isRecording
  /\ Len(store.samples) = 1
  /\ store.focus = 50
  /\ store.relax = 40
  /\ ~store.wearOk
  /\ store.currentSensor.focus = 69

\* C25: a FullSample is handed over only by a second segment that finds a
\* PartialSample held, and is made of the latest first segment delivered
\* since the last connect, disconnect or FullSample and of that second
\* segment; the PartialSample is empty afterwards, so a first segment goes
\* into at most one FullSample; and the FullSamples handed over never
\* outnumber the first segments or the second segments received, a held
\* PartialSample being a first segment not used yet.
C25_FullFromHeldPartial ==
  /\ last.full # Null =>
        /\ last.op = "notify"
        /\ IsSecondSegment(LastFrame)
        /\ last.held
        /\ last.firsts # <<>>
        /\ last.full = Full11(getSensorData(Frames[last.firsts[Len(last.firsts)]]),
                              getSensorData(LastFrame))
        /\ ~Held
        /\ firsts = <<>>
  /\ (last.op = "notify" /\ IsSecondSegment(LastFrame) /\ last.firsts = <<>>) =>
        last.full = Null
  /\ Held => firsts # <<>>
  /\ counts.full + (IF Held THEN 1 ELSE 0) <= counts.first
  /\ counts.full <= counts.second

C25_Witness ==
  /\ last.op = "notify"
  /\ last.full # Null
  /\ counts = [first |-> 3, second |-> 2, full |-> 2]
  /\ last.full.focus = 50

\* The condition of the watchdog: connected, a timestamp, more than 3000 ms old.
DropCondition(s, t) ==
  s.connected # NoDevice /\ s.lastDataTs # UndefinedNum /\ s.lastDataTs # 0
    /\ t - s.lastDataTs > 3000

\* The store with possibleDrop raised.
Raised(s) == [s EXCEPT !.possibleDrop = TRUE]

C27_CallbackUnregistered ==
  [][/\ last'.op = "handleDisconnect" => last'.arg \notin disconnectListener'
     /\ (last'.op = "disconnectDevice" /\ last'.result = "returned") =>
          targetDevice(store, last'.arg) \notin disconnectListener']_vars

\* C28: a scan whose timer is armed ends even if no caller ever acts: from
\* any state with the scanning flag set and scanTimeout armed, the flag is
\* eventually false; the expiry of the timer alone brings that about.
C28_ScanEventuallyEnds ==
  (store.scanning /\ scanTimeout) ~> ~store.scanning

C28_Witness ==
  /\ last.op = "scanTimer"
  /\ last.result = "current"
  /\ last.scanning
  /\ ~store.scanning
  /\ ~scanTimeout
  /\ store.connectionState = "idle"
  /\ Len(store.devices) = 1

\* C29: startScan empties the discovered-device list before anything else;
\* the list otherwise changes only by an advertisement appending a device
\* whose name starts with Mindsensor_ and whose id is not listed yet; so
\* every listed name has the prefix and no id is listed twice, however
\* advertisements repeat and interleave.
C29_DeviceList ==
  [][/\ (last'.op = "startScan" /\ last'.result \in {"called", "unsupported"}) =>
          store'.devices = <<>>
     /\ store'.devices # store.devices =>
          \/ last'.op = "startScan" /\ store'.devices = <<>>
          \/ /\ last'.op = "advertisement"
             /\ Len(store'.devices) = Len(store.devices) + 1
             /\ SubSeq(store'.devices, 1, Len(store.devices)) = store.devices
             /\ store'.devices[Len(store'.devices)].id = last'.arg
     /\ \A i \in 1..Len(store'.devices) :
          /\ SubSeq(Chars(store'.devices[i].name), 1, 11)
               = <<"M", "i", "n", "d", "s", "e", "n", "s", "o", "r", "_">>
          /\ \A j \in 1..Len(store'.devices) :
               store'.devices[i].id = store'.devices[j].id => i = j]_vars

C29_Witness ==
  /\ last.op = "advertisement"
  /\ last.arg = "d1"
  /\ Len(store.devices) = 2
  /\ store.devices[1].id = "d1"
  /\ store.devices[2].id = "d2"

\* Scan timers armed: the one scanTimeout references and those it no longer does.
ArmedTimers == (IF scanTimeout THEN 1 ELSE 0) + strayTimers

\* C30 (as claimed): a startScan during a running scan cancels that scan's
\* timer and listener: at most one scan timer is ever armed, no listener of
\* a superseded scan stays attached, and no running scan is ended by the
\* expiry of a superseded scan's timer.
C30_RestartCancelsEarlierScan ==
  /\ ArmedTimers <= 1
  /\ ~strayListeners
  /\ ~(last.op = "scanTimer" /\ last.result = "stray" /\ last.scanning)

\* C31 (as claimed): connectionState is 'connected' exactly when the store
\* holds a connected device, also after startScan or connectDevice is
\* called while a device is connected.
C31_ConnectedIffHandle ==
  (store.connectionState = "connected") <=> (store.connected # NoDevice)

\* C32 (as claimed): connectionState is 'scanning' exactly when the scanning
\* flag is set, and a scan timer is armed only while the flag is set, also
\* after a disconnect or a connect attempt during a scan.
C32_ScanningIffFlag ==
  /\ (store.connectionState = "scanning") <=> store.scanning
  /\ (ArmedTimers > 0 => store.scanning)

\* C33: whenever possibleDrop is true the store holds a connected device:
\* the watchdog raises the flag only while connected, and disconnect,
\* setConnected and reset all leave it false.
C33_DropOnlyWhileConnected ==
  store.possibleDrop => store.connected # NoDevice

\* A raised flag is cleared by the disconnect that drops the device.
C33_Witness ==
  /\ last.op = "handleDisconnect"
  /\ last.drop
  /\ ~store.possibleDrop
  /\ store.connected = NoDevice

\* C34 (as claimed): a tick raises possibleDrop only when more than 3000 ms
\* have passed since the current connection was established; a lastDataTs
\* from an earlier connection does not raise it right after a reconnect.
C34_NoDropFromEarlierConnection ==
  [][(last'.op = "tick" /\ ~store.possibleDrop /\ store'.possibleDrop) =>
       now - lastConnectedDevice.connectedAt > DropThreshold]_vars

\* C35 (as claimed): whenever a recording is active its start time is
\* defined, whatever the order of startRecord, stopRecord, clearData,
\* disconnect and reset, clearData during a session included.
C35_RecordingHasStartTime ==
  store.isRecording => store.recordStartTime # UndefinedNum

\* C36 (as claimed): a session begun by startRecord holds only samples
\* received since that startRecord; when startRecord returns, nothing
\* recorded earlier is in the buffers.
C36_SessionStartsEmpty ==
  last.op = "startRecord" =>
    /\ store.samples = <<>>
    /\ store.series = initialSeriesData

\* A step that ran store.disconnect: handleDisconnect, or disconnectDevice
\* with a device to act on.
Disconnects ==
  \/ last'.op = "handleDisconnect"
  \/ (last'.op = "disconnectDevice" /\ last'.result = "returned")

\* C37: a disconnect leaves isRecording false and samples, series and
\* recordStartTime as they were; afterwards isRecording becomes true again
\* only by startRecord, and the buffers grow only while it is true.
C37_DisconnectEndsSession ==
  [][/\ Disconnects =>
          /\ ~store'.isRecording
          /\ store'.samples = store.samples
          /\ store'.series = store.series
          /\ store'.recordStartTime = store.recordStartTime
     /\ (~store.isRecording /\ store'.isRecording) => last'.op = "startRecord"
     /\ BuffersGrow => store.isRecording]_vars

\* A link loss has ended a session that had recorded a sample.
C37_Witness ==
  /\ last.op = "handleDisconnect"
  /\ last.recording
  /\ ~store.isRecording
  /\ Len(store.samples) > 0
  /\ store.recordStartTime # UndefinedNum

====
